---- MODULE Spec2Model ----
(***************************************************************************)
(* sendfd: passing file descriptors with a byte payload over a connected   *)
(* pair of Unix-domain sockets (src/src/lib.rs).                           *)
(*                                                                         *)
(* The two operations of the crate, send_with_fd and recv_with_fd, are     *)
(* synchronous calls around one sendmsg(2) / recvmsg(2) each; each is one  *)
(* action.  The socket pair, the two descriptor tables and the heap that   *)
(* holds the control buffers are the state.  The host side (the CMSG_*     *)
(* layout macros of libc and the AF_UNIX behaviour of sendmsg/recvmsg) is  *)
(* modelled as on Linux, for a 32-bit and for a 64-bit build.              *)
(***************************************************************************)
EXTENDS Integers, Sequences, FiniteSets, TLC

\* ------------------------------------------------------------------ bounds
MaxSends == 2      \* send_with_fd calls in one behaviour
MaxLen == 2        \* bytes in one payload
MaxFds == 2        \* descriptors in one send
MaxCap == 3        \* slots in the receiver's destination
MaxBuf == 2        \* bytes in the receiver's byte buffer
MaxQueue == 2      \* packets the socket buffers before EAGAIN
StreamChunk == 1   \* bytes the kernel puts in one stream buffer (scaled)
BigCap == 9        \* a destination with room left after a credentials record

\* ------------------------------------------------------- program constants
SizeOfRawFd == 4   \* mem::size_of::<RawFd>()
OldSlot == 0       \* what the caller's destination holds before the call
JunkFd == 255      \* a descriptor number that is not open in the sender

Min(a, b) == IF a < b THEN a ELSE b

\* ------------------------------------------------------------- libc layout
\* w is size_of::<usize>() of the build: 4 or 8.
\* struct cmsghdr { size_t cmsg_len; int cmsg_level; int cmsg_type; }
CmsghdrSize(w) == w + 4 + 4

CMSG_ALIGN(w, len) == ((len + w - 1) \div w) * w

CMSG_SPACE(w, len) == CMSG_ALIGN(w, len) + CMSG_ALIGN(w, CmsghdrSize(w))

CMSG_LEN(w, len) == CMSG_ALIGN(w, CmsghdrSize(w)) + len

\* CMSG_DATA(cmsg) is cmsg.offset(1); ptr_offset_from gives the distance.
ptr_offset_from(this, origin) == this - origin

CMSG_DATA(w, cmsg) == cmsg + CmsghdrSize(w)

\* A control record as it lies in a control buffer at byte offset off.
Cmsg(off, level, type, len, data) ==
    [off |-> off, level |-> level, type |-> type, len |-> len, data |-> data]

Null == 0 - 1

\* The record of control buffer ctl that starts at offset off.
RecAt(ctl, off) == CHOOSE r \in {ctl[i] : i \in DOMAIN ctl} : r.off = off

CMSG_FIRSTHDR(w, controllen) ==
    IF controllen >= CmsghdrSize(w) THEN 0 ELSE Null

CMSG_NXTHDR(w, ctl, controllen, cmsg) ==
    IF RecAt(ctl, cmsg).len < CmsghdrSize(w) THEN Null
    ELSE LET next == cmsg + CMSG_ALIGN(w, RecAt(ctl, cmsg).len)
         IN  IF next + CmsghdrSize(w) > controllen THEN Null
             ELSE IF next + CMSG_ALIGN(w, RecAt(ctl, next).len) > controllen
                  THEN Null
                  ELSE next

\* ------------------------------------------------------------ host kernel
\* What the two system calls of the crate do on a connected AF_UNIX pair.
\* A queued packet: the bytes still unread, the kernel objects that ride with
\* it, and the number of the send call that queued it.
Skb(data, fp, sid) == [data |-> data, fp |-> fp, sid |-> sid]

Closed == 0

\* struct ucred { pid_t pid; uid_t uid; gid_t gid; }
UcredSize == 4 + 4 + 4

RECURSIVE StreamChunks(_, _, _, _)
\* The packets one stream send queues: at most n of them, each of at most
\* StreamChunk bytes, the rights riding with the first one only.
StreamChunks(bs, fp, sid, n) ==
    IF n = 0 \/ bs = <<>> THEN <<>>
    ELSE LET c == Min(StreamChunk, Len(bs))
         IN  <<Skb(SubSeq(bs, 1, c), fp, sid)>>
             \o StreamChunks(SubSeq(bs, c + 1, Len(bs)), <<>>, sid, n - 1)

RECURSIVE SeqSum(_)
SeqSum(s) == IF s = <<>> THEN 0 ELSE Len(Head(s).data) + SeqSum(Tail(s))

\* libc::sendmsg(socket, &msghdr, 0): tbl is the caller's descriptor table,
\* bs the bytes of the one iovec, cm the record in the control buffer.
KernelSendmsg(knd, q, tbl, sid, bs, cm, w) ==
    LET num == (cm.len - CmsghdrSize(w)) \div SizeOfRawFd
        bad == \E i \in 1..num :
                   \/ cm.data[i] \notin DOMAIN tbl
                   \/ tbl[cm.data[i]] = Closed
        fp  == [i \in 1..num |-> tbl[cm.data[i]]]
        room == MaxQueue - Len(q)
    IN  IF cm.level = "SOL_SOCKET" /\ cm.type = "SCM_RIGHTS" /\ bad
        THEN [ret |-> 0 - 1, errno |-> "EBADF", q |-> q]
        ELSE IF knd = "dgram"
        THEN IF room <= 0
             THEN [ret |-> 0 - 1, errno |-> "EAGAIN", q |-> q]
             ELSE [ret |-> Len(bs), errno |-> "none",
                   q |-> Append(q, Skb(bs, fp, sid))]
        ELSE IF bs = <<>>
        THEN [ret |-> 0, errno |-> "none", q |-> q]
        ELSE IF room <= 0
        THEN [ret |-> 0 - 1, errno |-> "EAGAIN", q |-> q]
        ELSE LET new == StreamChunks(bs, fp, sid, room)
             IN  [ret |-> SeqSum(new), errno |-> "none", q |-> q \o new]

\* put_cmsg: one record of datalen payload bytes into what is left of the
\* control buffer; c is [ctl, used, total].
PutCmsg(w, c, type, datalen, data) ==
    LET rem == c.total - c.used
    IN  IF rem < CmsghdrSize(w) THEN c
        ELSE [c EXCEPT
                !.ctl = Append(c.ctl,
                    Cmsg(c.used, "SOL_SOCKET", type,
                         Min(CMSG_LEN(w, datalen), rem), data)),
                !.used = c.used + Min(CMSG_SPACE(w, datalen), rem)]

\* scm_max_fds: how many descriptors the rest of the control buffer takes.
ScmMaxFds(w, rem) ==
    IF rem <= CmsghdrSize(w) THEN 0
    ELSE (rem - CmsghdrSize(w)) \div SizeOfRawFd

\* scm_recv: the credentials record when the receiving socket asked for it
\* (SO_PASSCRED), then the rights.  The first fdmax objects get descriptors
\* rnext, rnext+1, ... in the receiving process; the others are dropped.
ScmRecv(w, total, pcred, fp, rnext) ==
    LET c0 == [ctl |-> <<>>, used |-> 0, total |-> total]
        c1 == IF pcred THEN PutCmsg(w, c0, "SCM_CREDENTIALS", UcredSize, <<>>)
              ELSE c0
        n  == Min(ScmMaxFds(w, total - c1.used), Len(fp))
        inst == [j \in 1..n |-> [fd |-> rnext + j - 1, obj |-> fp[j]]]
        c2 == IF n > 0
              THEN PutCmsg(w, c1, "SCM_RIGHTS", n * SizeOfRawFd,
                           [j \in 1..n |-> inst[j].fd])
              ELSE c1
    IN  [ctl |-> c2.ctl, controllen |-> c2.used, installed |-> inst]

\* One outcome of recvmsg: bytes copied, the queue left, the rights taken off
\* the queue, and the packets the bytes and rights came from.
RecvOut(bytes, q, fp, from) ==
    [bytes |-> bytes, q |-> q, fp |-> fp, from |-> from]

RECURSIVE StreamRead(_, _)
\* unix_stream_read_generic: packets are read in order until the buffer is
\* full, the queue is empty, or a packet that carried rights was consumed.
\* The rights of a packet leave it with the first read that touches it, a
\* read of no bytes included.
StreamRead(q, size) ==
    IF q = <<>> THEN RecvOut(<<>>, q, <<>>, <<>>)
    ELSE LET skb   == Head(q)
             chunk == Min(Len(skb.data), size)
             rest  == SubSeq(skb.data, chunk + 1, Len(skb.data))
         IN  IF rest # <<>>
             THEN RecvOut(SubSeq(skb.data, 1, chunk),
                          <<Skb(rest, <<>>, skb.sid)>> \o Tail(q), skb.fp,
                          <<skb>>)
             ELSE IF skb.fp # <<>> \/ size - chunk = 0
             THEN RecvOut(skb.data, Tail(q), skb.fp, <<skb>>)
             ELSE LET more == StreamRead(Tail(q), size - chunk)
                  IN  RecvOut(skb.data \o more.bytes, more.q, more.fp,
                              <<skb>> \o more.from)

\* The data part of libc::recvmsg(socket, &mut msghdr, 0) on a queue that is
\* not empty.  A datagram is taken whole and what does not fit is dropped.
KernelRead(knd, q, size) ==
    IF knd = "dgram"
    THEN LET skb == Head(q)
         IN  RecvOut(SubSeq(skb.data, 1, Min(Len(skb.data), size)),
                     Tail(q), skb.fp, <<skb>>)
    ELSE StreamRead(q, size)

\* libc::recvmsg: every outcome on socket state (knd, q) for a byte buffer of
\* size bytes and a control buffer of controllen bytes.  On an empty queue the
\* call fails: the socket does not block, or a signal ends the wait.
KernelRecvmsg(knd, q, size, controllen, w, pcred, rnext) ==
    IF q = <<>>
    THEN {[ret |-> 0 - 1, errno |-> e, bytes |-> <<>>, q |-> q,
           from |-> <<>>, rights |-> <<>>, ctl |-> <<>>,
           controllen |-> controllen, installed |-> <<>>]
          : e \in {"EAGAIN", "EINTR"}}
    ELSE LET o   == KernelRead(knd, q, size)
             scm == ScmRecv(w, controllen, pcred, o.fp, rnext)
         IN  {[ret |-> Len(o.bytes), errno |-> "none", bytes |-> o.bytes,
               q |-> o.q, from |-> o.from, rights |-> o.fp, ctl |-> scm.ctl,
               controllen |-> scm.controllen, installed |-> scm.installed]}

\* ------------------------------------------------------- the crate's code
\* impl Sendable for RawFd / delegate!: the descriptor behind a resource.
as_sendable_fd(this) == this

\* impl Receivable for RawFd / delegate!: the resource that owns descriptor fd.
from_received_fd(fd) == fd

\* The control buffer of one call: buf is "none", "live" or "freed"; allocs
\* and frees count alloc::alloc and alloc::dealloc; uaf is set by an access
\* to the buffer while it is not live.
NoBuffer == [buf |-> "none", allocs |-> 0, frees |-> 0, uaf |-> FALSE]

alloc(cx) == [cx EXCEPT !.buf = "live", !.allocs = @ + 1]

dealloc(cx) ==
    [cx EXCEPT !.buf = "freed", !.frees = @ + 1,
               !.uaf = @ \/ cx.buf # "live"]

\* A read or write through msghdr.msg_control.
access(cx) == [cx EXCEPT !.uaf = @ \/ cx.buf # "live"]

construct_msghdr_for(w, fd_count) ==
    LET fd_len == SizeOfRawFd * fd_count
        cmsg_buffer_len == CMSG_SPACE(w, fd_len)
    IN  [msg_controllen |-> cmsg_buffer_len, fd_len |-> fd_len,
         cx |-> alloc(NoBuffer)]

\* A send that fills the payload region from its end.
SendCmsgReversed(w, fd_len, fds) ==
    Cmsg(0, "SOL_SOCKET", "SCM_RIGHTS", CMSG_LEN(w, fd_len),
         [i \in 1..Len(fds) |-> as_sendable_fd(fds[Len(fds) + 1 - i])])

\* The record send_with_fd writes at CMSG_FIRSTHDR.
SendCmsg(w, fd_len, fds) ==
    Cmsg(0, "SOL_SOCKET", "SCM_RIGHTS", CMSG_LEN(w, fd_len),
         [i \in 1..Len(fds) |-> as_sendable_fd(fds[i])])

\* A send that does not test count < 0.
SendResultUnchecked(count, errno, cx) ==
    [result |-> "Ok", value |-> count, cx |-> dealloc(cx)]

\* How send_with_fd turns the count returned by sendmsg into its result;
\* the control buffer is freed on both branches.
SendResult(count, errno, cx) ==
    IF count < 0
    THEN [result |-> "Err", value |-> errno, cx |-> dealloc(cx)]
    ELSE [result |-> "Ok", value |-> count, cx |-> dealloc(cx)]

\* A send that takes the resources by value and drops them.
SentResourcesDropped(tbl, fds) ==
    [fd \in DOMAIN tbl |->
        IF \E i \in DOMAIN fds : as_sendable_fd(fds[i]) = fd THEN Closed
        ELSE tbl[fd]]

\* The caller's resources after send_with_fd borrowed them as &[T].
SentResources(tbl, fds) == tbl

send_with_fd(knd, q, tbl, sid, bs, fds, w) ==
    LET m  == construct_msghdr_for(w, Len(fds))
        cm == SendCmsg(w, m.fd_len, fds)
        k  == KernelSendmsg(knd, q, tbl, sid, bs, cm, w)
        r  == SendResult(k.ret, k.errno, access(m.cx))
    IN  [result |-> r.result, value |-> r.value, cx |-> r.cx, q |-> k.q,
         tbl |-> SentResources(tbl, fds)]

\* The state of the receive walk: the destination, the slots already split
\* off its front, descriptor_count, and what the walk did so far.
WalkInit(cap, cx) ==
    [dst |-> [i \in 1..cap |-> OldSlot], cursor |-> 0, descriptor_count |-> 0,
     conv |-> <<>>, writes |-> <<>>, visited |-> <<>>, panicked |-> FALSE,
     cx |-> cx]

\* A walk that does not check the destination for room.
SplitFirstUnchecked(st) == TRUE

\* {fds}.split_first_mut(): is there a slot left for the next descriptor.
SplitFirst(st) == st.cursor < Len(st.dst)

RECURSIVE CopyLoop(_, _, _, _)
\* for i in 0..rawfd_count { ... }
CopyLoop(rec, i, rawfd_count, st) ==
    IF i >= rawfd_count \/ st.panicked THEN st
    ELSE IF SplitFirst(st)
    THEN LET fd == rec.data[i + 1]
         IN  CopyLoop(rec, i + 1, rawfd_count,
                 [st EXCEPT !.dst[st.cursor + 1] = from_received_fd(fd),
                            !.descriptor_count = @ + 1,
                            !.cursor = @ + 1,
                            !.conv = Append(@, fd),
                            !.writes = Append(@, st.cursor + 1),
                            !.cx = access(@)])
    ELSE [st EXCEPT !.panicked = TRUE]

\* The body of the walk for one SOL_SOCKET/SCM_RIGHTS record at cmsg_header.
CopyRights(w, rec, cmsg_header, st) ==
    LET data_ptr == CMSG_DATA(w, cmsg_header)
        data_offset == ptr_offset_from(data_ptr, cmsg_header)
        data_byte_count == rec.len - data_offset
        rawfd_count == data_byte_count \div SizeOfRawFd
    IN  IF \/ data_offset < 0
           \/ rec.len <= data_offset
           \/ data_byte_count % SizeOfRawFd # 0
        THEN [st EXCEPT !.panicked = TRUE]
        ELSE CopyLoop(rec, 0, rawfd_count, st)

RECURSIVE Walk(_, _, _, _, _)
\* A walk that reads the record at CMSG_FIRSTHDR and never advances.
WalkFirstOnly(w, ctl, controllen, cmsg_header, st) ==
    IF cmsg_header = Null \/ st.panicked THEN st
    ELSE LET rec == RecAt(ctl, cmsg_header)
             st1 == [st EXCEPT !.visited = Append(@, cmsg_header),
                               !.cx = access(@)]
         IN  IF rec.level = "SOL_SOCKET" /\ rec.type = "SCM_RIGHTS"
             THEN CopyRights(w, rec, cmsg_header, st1)
             ELSE st1

\* while !cmsg_header.is_null() { ... cmsg_header = CMSG_NXTHDR(..) }
Walk(w, ctl, controllen, cmsg_header, st) ==
    IF cmsg_header = Null \/ st.panicked THEN st
    ELSE LET rec == RecAt(ctl, cmsg_header)
             st1 == [st EXCEPT !.visited = Append(@, cmsg_header),
                               !.cx = access(@)]
             st2 == IF rec.level = "SOL_SOCKET" /\ rec.type = "SCM_RIGHTS"
                    THEN CopyRights(w, rec, cmsg_header, st1)
                    ELSE st1
         IN  IF st2.panicked THEN st2
             ELSE Walk(w, ctl, controllen,
                       CMSG_NXTHDR(w, ctl, controllen, cmsg_header), st2)

\* A receive that does not test count < 0 and walks a buffer the kernel
\* left empty.
RecvResultUnchecked(w, k, cap, cx) ==
    LET st == Walk(w, k.ctl, IF k.ret < 0 THEN 0 ELSE k.controllen,
                   CMSG_FIRSTHDR(w, IF k.ret < 0 THEN 0 ELSE k.controllen),
                   WalkInit(cap, cx))
    IN  IF st.panicked
        THEN st @@ [result |-> "Panic", value |-> "unreachable"]
        ELSE [st EXCEPT !.cx = dealloc(@)]
                @@ [result |-> "Ok", value |-> <<k.ret, st.descriptor_count>>]

\* recv_with_fd after recvmsg returned k: the early return on failure, else
\* the walk, then the dealloc and the result.  A panic leaves the function
\* where it happens.
RecvResult(w, k, cap, cx) ==
    IF k.ret < 0
    THEN WalkInit(cap, dealloc(cx)) @@ [result |-> "Err", value |-> k.errno]
    ELSE LET st == Walk(w, k.ctl, k.controllen,
                        CMSG_FIRSTHDR(w, k.controllen), WalkInit(cap, cx))
         IN  IF st.panicked
             THEN st @@ [result |-> "Panic", value |-> "unreachable"]
             ELSE [st EXCEPT !.cx = dealloc(@)]
                     @@ [result |-> "Ok",
                         value |-> <<k.ret, st.descriptor_count>>]

\* A receive that calls recvmsg again while the byte buffer has room.
RecvSyscallDrain(knd, q, size, controllen, w, pcred, rnext) ==
    UNION {IF k.ret < 0 \/ k.ret >= size \/ k.q = <<>> THEN {k}
           ELSE {[k EXCEPT !.ret = @ + k2.ret, !.bytes = @ \o k2.bytes,
                           !.q = k2.q, !.from = @ \o k2.from]
                 : k2 \in KernelRecvmsg(knd, k.q, size - k.ret, 0, w, pcred,
                                        rnext)}
           : k \in KernelRecvmsg(knd, q, size, controllen, w, pcred, rnext)}

\* let count = libc::recvmsg(socket, &mut msghdr, 0): one call, one outcome.
RecvSyscall(knd, q, size, controllen, w, pcred, rnext) ==
    KernelRecvmsg(knd, q, size, controllen, w, pcred, rnext)

\* The outcomes of recv_with_fd(socket, bs, fds) with bs.len() = size and
\* fds.len() = cap.
recv_with_fd(knd, q, w, pcred, rnext, size, cap) ==
    LET m == construct_msghdr_for(w, cap)
    IN  {RecvResult(w, k, cap, m.cx)
            @@ [bytes |-> k.bytes, q |-> k.q, from |-> k.from,
                rights |-> k.rights, installed |-> k.installed,
                count |-> k.ret, errno |-> k.errno, ctl |-> k.ctl]
         : k \in RecvSyscall(knd, q, size, m.msg_controllen, w, pcred, rnext)}

\* ------------------------------------------------------------------ state
VARIABLES
    kind,      \* "stream" or "dgram": which socket pair the two ends hold
    usize,     \* size_of::<usize>() of the build
    passcred,  \* SO_PASSCRED is set on the receiving socket
    sfd,       \* the sending process's descriptor table: fd -> kernel object
    queue,     \* the packets sent and not yet received
    nsend,     \* send_with_fd calls made
    leaked,    \* descriptors open in the receiving process that nothing owns
    heap,      \* control buffers allocated and never freed
    consumed,  \* the sends some recv_with_fd returned bytes or rights of
    lastSend,  \* the last send_with_fd call: its arguments and its outcome
    lastRecv   \* the last recv_with_fd call, if no send followed it

vars == <<kind, usize, passcred, sfd, queue, nsend, leaked, heap, consumed,
          lastSend, lastRecv>>

\* The sender holds descriptors 3 .. 2+MaxFds, each on its own kernel object,
\* and one descriptor number above them that it has closed.
OpenFds == 3..(2 + MaxFds)

ClosedFd == 3 + MaxFds

SenderTable == [fd \in OpenFds \cup {ClosedFd} |->
                   IF fd \in OpenFds THEN 100 + fd ELSE Closed]

Payloads == {[i \in 1..n |-> i] : n \in 0..MaxLen}

Asc(n) == [i \in 1..n |-> 2 + i]

Desc(n) == [i \in 1..n |-> 3 + n - i]

ValidLists == {Asc(n) : n \in 0..MaxFds} \cup {Desc(n) : n \in 0..MaxFds}

\* Lists with a descriptor that is not open: an out-of-range one after valid
\* ones, a closed one before valid ones.
JunkLists == {[Asc(n) EXCEPT ![n] = JunkFd] : n \in 1..MaxFds}
                 \cup {[Asc(n) EXCEPT ![1] = ClosedFd] : n \in 1..MaxFds}

FdLists == ValidLists \cup JunkLists

Sizes == 0..MaxBuf

Caps == 0..MaxCap \cup {BigCap}

NoSend == [result |-> "None", value |-> 0, cx |-> NoBuffer, bs |-> <<>>,
           fds |-> <<>>, sid |-> 0, queued |-> <<>>]

NoRecv == WalkInit(0, NoBuffer)
            @@ [result |-> "None", value |-> 0, bytes |-> <<>>, from |-> <<>>,
                rights |-> <<>>, installed |-> <<>>, count |-> 0,
                errno |-> "none", ctl |-> <<>>, size |-> 0, cap |-> 0,
                at |-> 0, before |-> <<>>]

Init ==
    /\ kind \in {"stream", "dgram"}
    /\ usize \in {4, 8}
    /\ passcred \in BOOLEAN
    /\ sfd = SenderTable
    /\ queue = <<>>
    /\ nsend = 0
    /\ leaked = 0
    /\ heap = 0
    /\ consumed = {}
    /\ lastSend = NoSend
    /\ lastRecv = NoRecv

\* The receiving process closes the resources it was given before it
\* receives again, so the kernel hands out the descriptor numbers from
\* FirstFree on, above the descriptors that leaked.
FirstFree == 10 + leaked

\* The descriptors of installed that no destination slot owns.
Unowned(installed, dst) ==
    {i \in DOMAIN installed :
        \A s \in DOMAIN dst : dst[s] # from_received_fd(installed[i].fd)}

\* A buffer that is still live when its call ends is never freed.
Leak(cx) == IF cx.buf = "live" THEN 1 ELSE 0

\* socket.send_with_fd(bs, fds) on the sending end; queued is what the call
\* added to the queue.
Send(bs, fds) ==
    /\ nsend < MaxSends
    /\ LET r == send_with_fd(kind, queue, sfd, nsend + 1, bs, fds, usize)
       IN  /\ queue' = r.q
           /\ sfd' = r.tbl
           /\ heap' = heap + Leak(r.cx)
           /\ lastSend' = [result |-> r.result, value |-> r.value,
                           cx |-> r.cx, bs |-> bs, fds |-> fds,
                           sid |-> nsend + 1,
                           queued |-> SubSeq(r.q, Len(queue) + 1, Len(r.q))]
    /\ nsend' = nsend + 1
    /\ lastRecv' = NoRecv
    /\ UNCHANGED <<kind, usize, passcred, leaked, consumed>>

\* socket.recv_with_fd(bytes, fds) on the receiving end, bytes.len() = size
\* and fds.len() = cap; before is the queue the call found, at the number of
\* sends made before it.
Recv(size, cap) ==
    /\ \E r \in recv_with_fd(kind, queue, usize, passcred, FirstFree, size, cap) :
           /\ queue' = r.q
           /\ leaked' = leaked + Cardinality(Unowned(r.installed, r.dst))
           /\ heap' = heap + Leak(r.cx)
           /\ consumed' = consumed \cup {r.from[i].sid : i \in DOMAIN r.from}
           /\ lastRecv' = [f \in (DOMAIN r \ {"q"}) |-> r[f]]
                            @@ [size |-> size, cap |-> cap, at |-> nsend,
                                before |-> queue]
    /\ UNCHANGED <<kind, usize, passcred, sfd, nsend, lastSend>>

Next ==
    \/ \E bs \in Payloads, fds \in FdLists : Send(bs, fds)
    \/ \E size \in Sizes, cap \in Caps : Recv(size, cap)

Spec == Init /\ [][Next]_vars

\* ------------------------------------------------- the walk on any buffer
\* recv_with_fd walks whatever control buffer recvmsg filled in.  The second
\* specification applies the part of recv_with_fd that follows recvmsg to
\* every buffer of at most MaxRecs records that fits the control buffer the
\* call allocated: a record is a credentials record or a descriptor-rights
\* record of 1..MaxFds descriptors, laid out the way CMSG_NXTHDR steps.
MaxRecs == 3

\* A shape lists the records: 0 is a credentials record, n > 0 a rights
\* record of n descriptors.
Shapes == UNION {[1..n -> 0..MaxFds] : n \in 0..MaxRecs}

RECURSIVE Layout(_, _, _, _)
\* The records of a shape from offset off on, the descriptors numbered from
\* fd on in the order the kernel installs them.
Layout(w, shape, off, fd) ==
    IF shape = <<>> THEN <<>>
    ELSE LET n == Head(shape)
             rec == IF n = 0
                    THEN Cmsg(off, "SOL_SOCKET", "SCM_CREDENTIALS",
                              CMSG_LEN(w, UcredSize), <<>>)
                    ELSE Cmsg(off, "SOL_SOCKET", "SCM_RIGHTS",
                              CMSG_LEN(w, SizeOfRawFd * n),
                              [j \in 1..n |-> fd + j - 1])
         IN  <<rec>> \o Layout(w, Tail(shape), off + CMSG_ALIGN(w, rec.len),
                               fd + n)

\* msg_controllen after recvmsg: the end of the last record.
ControlEnd(w, ctl) ==
    IF ctl = <<>> THEN 0
    ELSE ctl[Len(ctl)].off + CMSG_ALIGN(w, ctl[Len(ctl)].len)

RECURSIVE RightsData(_)
\* The descriptors of the rights records of ctl, in record order.
RightsData(ctl) ==
    IF ctl = <<>> THEN <<>>
    ELSE (IF Head(ctl).type = "SCM_RIGHTS" THEN Head(ctl).data ELSE <<>>)
            \o RightsData(Tail(ctl))

\* recvmsg returned 0 bytes and the control buffer of shape.
RecvmsgControl(w, q, shape, rnext) ==
    LET ctl == Layout(w, shape, 0, rnext)
        fds == RightsData(ctl)
    IN  [ret |-> 0, errno |-> "none", bytes |-> <<>>, q |-> q, from |-> <<>>,
         rights |-> <<>>, ctl |-> ctl, controllen |-> ControlEnd(w, ctl),
         installed |-> [j \in DOMAIN fds |-> [fd |-> fds[j], obj |-> j]]]

\* recv_with_fd(bytes, fds) with bytes.len() = 0 and fds.len() = cap, when
\* recvmsg fills the control buffer with the records of shape.  The receiver
\* is followed up to its first panic.
RecvControl(shape, cap) ==
    LET m == construct_msghdr_for(usize, cap)
        k == RecvmsgControl(usize, queue, shape, FirstFree)
        r == RecvResult(usize, k, cap, m.cx)
    IN  /\ lastRecv.result # "Panic"
        /\ k.controllen <= m.msg_controllen
        /\ leaked' = leaked + Cardinality(Unowned(k.installed, r.dst))
        /\ heap' = heap + Leak(r.cx)
        /\ lastRecv' = r @@ [bytes |-> k.bytes, from |-> k.from,
                             rights |-> k.rights, installed |-> k.installed,
                             count |-> k.ret, errno |-> k.errno,
                             ctl |-> k.ctl, size |-> 0, cap |-> cap,
                             at |-> nsend, before |-> queue]
        /\ UNCHANGED <<kind, usize, passcred, sfd, queue, nsend, consumed,
                       lastSend>>

NextWalk == \E shape \in Shapes, cap \in Caps : RecvControl(shape, cap)

SpecWalk == Init /\ [][NextWalk]_vars

\* ----------------------------------------------------------------- claims
IsPrefix(a, b) == Len(a) <= Len(b) /\ a = SubSeq(b, 1, Len(a))

SendCalled == lastSend.result # "None"

RecvCalled == lastRecv.result # "None"

\* The kernel objects behind a list of the sender's descriptors.
SentObjects(fds) == [i \in 1..Len(fds) |-> sfd[fds[i]]]

\* The kernel object behind destination slot i after the last receive.
SlotObject(i) ==
    LET S == {j \in DOMAIN lastRecv.installed :
                 from_received_fd(lastRecv.installed[j].fd) = lastRecv.dst[i]}
    IN  IF S = {} THEN Closed ELSE lastRecv.installed[CHOOSE j \in S : TRUE].obj

\* The last receive found in the queue exactly what the last send, a
\* successful send of the whole payload, had queued on a plain pair, and its
\* buffers are large enough for that send.
RoundTripCase ==
    /\ SendCalled /\ RecvCalled
    /\ ~passcred
    /\ lastSend.result = "Ok" /\ lastSend.value = Len(lastSend.bs)
    /\ lastRecv.before = lastSend.queued
    /\ lastRecv.size >= Len(lastSend.bs)
    /\ lastRecv.cap >= Len(lastSend.fds)

RoundTripResult ==
    /\ lastRecv.result = "Ok"
    /\ lastRecv.value = <<Len(lastSend.bs), Len(lastSend.fds)>>
    /\ lastRecv.bytes = lastSend.bs
    /\ \A i \in 1..Len(lastSend.fds) :
           SlotObject(i) = SentObjects(lastSend.fds)[i]

\* C1 as stated: after one send of any payload P and valid descriptors D,
\* one receive with a byte buffer of at least len(P) bytes and at least
\* len(D) slots returns (len(P), len(D)), the bytes of P, and in slot i the
\* kernel object of D[i].
C1_RoundTripAnyPayload == RoundTripCase => RoundTripResult

\* C1 amended: the same, for a send the kernel queued as exactly one packet
\* (any datagram; on a stream pair a payload that is not empty and is no
\* longer than one kernel buffer).
C1_RoundTrip ==
    (RoundTripCase /\ Len(lastSend.queued) = 1) => RoundTripResult

C1_Witness ==
    /\ RoundTripCase /\ Len(lastSend.queued) = 1 /\ RoundTripResult
    /\ Len(lastSend.fds) >= 2 /\ Len(lastSend.bs) >= 1
    /\ lastSend.fds[1] > lastSend.fds[2]

\* The kernel objects the last receive installed, in order.
InstalledObjects ==
    [j \in DOMAIN lastRecv.installed |-> lastRecv.installed[j].obj]

InstalledFds ==
    [j \in DOMAIN lastRecv.installed |-> lastRecv.installed[j].fd]

\* C2: on a datagram pair a receive whose recvmsg succeeded took exactly one
\* packet, whole as it was sent; its bytes and its descriptors are the front
\* of that one send's; the packet is gone from the queue, and no send that a
\* receive has returned anything of is still queued for a later receive.
C2_DatagramAtomic ==
    kind = "dgram" =>
        /\ \A i \in DOMAIN queue : queue[i].sid \notin consumed
        /\ \A i, j \in DOMAIN queue : i # j => queue[i].sid # queue[j].sid
        /\ (RecvCalled /\ lastRecv.count >= 0) =>
              /\ Len(lastRecv.from) = 1
              /\ lastRecv.from[1] = Head(lastRecv.before)
              /\ queue = Tail(lastRecv.before)
              /\ IsPrefix(lastRecv.bytes, lastRecv.from[1].data)
              /\ IsPrefix(InstalledObjects, lastRecv.from[1].fp)
              /\ \A i \in 1..lastRecv.descriptor_count :
                     SlotObject(i) = lastRecv.from[1].fp[i]
              /\ (lastRecv.from[1].sid = lastSend.sid =>
                     /\ lastRecv.from[1].data = lastSend.bs
                     /\ lastRecv.from[1].fp = SentObjects(lastSend.fds))

C2_Witness ==
    /\ kind = "dgram" /\ RecvCalled /\ lastRecv.result = "Ok"
    /\ Len(lastRecv.before) = 2
    /\ lastRecv.size > Len(lastRecv.bytes)
    /\ Len(lastRecv.bytes) >= 1 /\ lastRecv.descriptor_count >= 1
    /\ lastRecv.before[2].data # <<>> /\ lastRecv.before[2].fp # <<>>

\* C3: a receive never writes past its destination: descriptor_count is at
\* most the capacity, the slots written are exactly 1..descriptor_count,
\* each once and in order, the slots after them hold what they held before
\* the call, and a returned count is descriptor_count.
C3_NeverPastCapacity ==
    RecvCalled =>
        LET k == lastRecv.descriptor_count
        IN  /\ k <= lastRecv.cap
            /\ Len(lastRecv.dst) = lastRecv.cap
            /\ lastRecv.writes = [i \in 1..k |-> i]
            /\ \A i \in 1..lastRecv.cap :
                   IF i <= k
                   THEN lastRecv.dst[i] = from_received_fd(lastRecv.conv[i])
                   ELSE lastRecv.dst[i] = OldSlot
            /\ lastRecv.result = "Ok" => lastRecv.value[2] = k

C3_Witness ==
    /\ RecvCalled /\ lastRecv.result = "Ok"
    /\ Len(lastRecv.rights) >= 2
    /\ lastRecv.descriptor_count = 2 /\ lastRecv.cap = 3

\* C4: on a pair with no other ancillary data, a receive that took more
\* descriptors off the queue than its destination has slots returns Ok with
\* a descriptor count equal to the capacity, for every capacity.
C4_TruncationSucceeds ==
    (RecvCalled /\ ~passcred /\ Len(lastRecv.rights) > lastRecv.cap) =>
        (lastRecv.result = "Ok" /\ lastRecv.value[2] = lastRecv.cap)

FreedOnce(cx) ==
    cx.allocs = 1 /\ cx.frees = 1 /\ cx.buf = "freed" /\ ~cx.uaf

\* C5: every call allocates one control buffer and frees it once before it
\* ends, on every exit path, and never touches it after the free.
C5_BufferFreedOnEveryPath ==
    /\ SendCalled => FreedOnce(lastSend.cx)
    /\ RecvCalled => FreedOnce(lastRecv.cx)
    /\ heap = 0

\* C6: when recvmsg fails, recv_with_fd returns the error the kernel
\* reported, writes no slot, converts no descriptor and visits no record.
C6_KernelFailure ==
    (RecvCalled /\ lastRecv.count < 0) =>
        /\ lastRecv.result = "Err"
        /\ lastRecv.value = lastRecv.errno
        /\ lastRecv.writes = <<>>
        /\ lastRecv.conv = <<>>
        /\ lastRecv.visited = <<>>
        /\ lastRecv.dst = [i \in 1..lastRecv.cap |-> OldSlot]
        /\ FreedOnce(lastRecv.cx)

C6_Witness ==
    /\ RecvCalled /\ lastRecv.count < 0 /\ lastRecv.errno = "EINTR"
    /\ lastRecv.cap >= 2 /\ lastRecv.result = "Err"

\* Descriptor fd is not open in the sending process.
Invalid(fd) == fd \notin DOMAIN sfd \/ sfd[fd] = Closed

\* C7: a send whose list holds an invalid descriptor returns the kernel's
\* error and nothing of that call, bytes or descriptors, is queued for the
\* peer or was received by it.
C7_InvalidDescriptor ==
    (SendCalled /\ \E i \in DOMAIN lastSend.fds : Invalid(lastSend.fds[i])) =>
        /\ lastSend.result = "Err"
        /\ lastSend.value = "EBADF"
        /\ lastSend.queued = <<>>
        /\ \A i \in DOMAIN queue : queue[i].sid # lastSend.sid
        /\ lastSend.sid \notin consumed

C7_Witness ==
    /\ SendCalled /\ lastSend.result = "Err" /\ lastSend.value = "EBADF"
    /\ Len(lastSend.fds) = 2 /\ ~Invalid(lastSend.fds[1])
    /\ Invalid(lastSend.fds[2]) /\ lastSend.bs # <<>>
    /\ RecvCalled /\ lastRecv.count < 0

\* C8: send_with_fd leaves the sender's descriptor table as it was: every
\* resource it was given is still open, after a success and after a failure,
\* and can be sent again.
C8_SendOnlyInspects == sfd = SenderTable

C8_Witness ==
    /\ kind = "dgram" /\ nsend = 2 /\ Len(queue) = 2
    /\ lastSend.result = "Ok" /\ lastSend.fds # <<>>
    /\ queue[1].fp = queue[2].fp

\* C9: every descriptor the kernel installed for a receive is converted
\* exactly once and owned by a destination slot when the call ends; none is
\* left open and unowned.
C9_NoDescriptorLeak ==
    /\ leaked = 0
    /\ RecvCalled =>
          /\ lastRecv.conv = InstalledFds
          /\ Unowned(lastRecv.installed, lastRecv.dst) = {}

\* C10: the control buffer built for N slots holds at most N descriptors, so
\* no receive reaches the branch marked unreachable.
C10_UnreachableBranch ==
    RecvCalled =>
        /\ lastRecv.result # "Panic"
        /\ Len(lastRecv.installed) <= lastRecv.cap

\* The descriptor count of a rights record: (record length - data offset) /
\* descriptor width.
RecordCount(rec) ==
    (rec.len - ptr_offset_from(CMSG_DATA(usize, rec.off), rec.off))
        \div SizeOfRawFd

RECURSIVE RecordFds(_)
\* The first RecordCount descriptors of every rights record of ctl, in record
\* order then in-record order; other records give none.
RecordFds(ctl) ==
    IF ctl = <<>> THEN <<>>
    ELSE (IF Head(ctl).level = "SOL_SOCKET" /\ Head(ctl).type = "SCM_RIGHTS"
          THEN SubSeq(Head(ctl).data, 1, RecordCount(Head(ctl)))
          ELSE <<>>) \o RecordFds(Tail(ctl))

RECURSIVE RecordCountSum(_)
\* The sum of RecordCount over the rights records of ctl.
RecordCountSum(ctl) ==
    IF ctl = <<>> THEN 0
    ELSE (IF Head(ctl).level = "SOL_SOCKET" /\ Head(ctl).type = "SCM_RIGHTS"
          THEN RecordCount(Head(ctl)) ELSE 0) + RecordCountSum(Tail(ctl))

\* C11: when recvmsg succeeds, the walk visits every record of the returned
\* control buffer in order, be there none, one or several.  Records that are
\* not (SOL_SOCKET, SCM_RIGHTS) write no slot; a rights record holds
\* (record length - data offset) / descriptor width descriptors; a call that
\* returns Ok returns the sum of these counts, and the slots 1, 2, ... hold
\* the descriptors in record order then in-record order, the slots after
\* them untouched.  A call that panics has written a prefix of that sequence.
C11_ReceiveWalk ==
    (RecvCalled /\ lastRecv.count >= 0) =>
        LET ctl == lastRecv.ctl
            fds == RecordFds(ctl)
            n == Len(lastRecv.conv)
        IN  /\ lastRecv.visited = [i \in DOMAIN ctl |-> ctl[i].off]
            /\ IsPrefix(lastRecv.conv, fds)
            /\ lastRecv.writes = [i \in 1..n |-> i]
            /\ \A i \in 1..lastRecv.cap :
                   lastRecv.dst[i] = IF i <= n THEN from_received_fd(fds[i])
                                     ELSE OldSlot
            /\ lastRecv.result = "Ok" =>
                   /\ lastRecv.conv = fds
                   /\ Len(fds) = RecordCountSum(ctl)
                   /\ lastRecv.value[2] = RecordCountSum(ctl)

\* Two rights records in one control buffer: the second record's descriptors
\* land in the slots after the first's.
C11_Witness ==
    /\ lastRecv.result = "Ok"
    /\ Len(lastRecv.ctl) = 2
    /\ lastRecv.ctl[1].type = "SCM_RIGHTS"
    /\ lastRecv.ctl[2].type = "SCM_RIGHTS"
    /\ Len(lastRecv.ctl[1].data) = 1
    /\ Len(lastRecv.ctl[2].data) = 2
    /\ lastRecv.visited = <<0, CMSG_SPACE(usize, SizeOfRawFd)>>
    /\ lastRecv.value[2] = 3
    /\ lastRecv.writes = <<1, 2, 3>>

====
